---- MODULE Spec2Model ----
(***************************************************************************)
(* Model of uber-receipt-download.py: the UberReceiptDownloader object,    *)
(* download_multiple_receipts (the batch loop), fetch_trip_ids,            *)
(* download_receipt (the per-trip flow), main and close().  The page is the *)
(* environment: every awaited page call either returns one of its possible *)
(* values or raises, chosen nondeterministically at the call.              *)
(***************************************************************************)
EXTENDS Integers, Sequences, FiniteSets, TLC

(* ------------------------------ bounds --------------------------------- *)
\* longest explicit trip-id list handed to download_multiple_receipts
MaxTrips == 2
\* most trip entries one scrape of the trips page returns
MaxEntries == 2
\* most <button> elements the last-resort scan enumerates
MaxButtons == 2
\* most cost <div> blocks the first cost heuristic enumerates
MaxCostDivs == 2
\* most trip entries handed to the selection step of fetch_trip_ids on its own
MaxScraped == 3
\* number of calendar years, ending with the current one, whose dates the
\* date step is tried on
YearsChecked == 2
\* longest --trip-id list handed to main
MaxMainTrips == 1

(* ----------------------------- value sets ------------------------------ *)
\* Python's None (results, download_path, absent arguments)
None == "None"

TripIds == {"txt1", "txt2"}

download_dir == "out"

\* datetime.now() of the run, as <<year, month, day>>
Today == <<2028, 11, 1>>

view_receipt_selectors ==
    << "button[data-tracking-name=\"view-receipt-link\"]",
       ":text(\"View Receipt\")",
       "button:has-text(\"View Receipt\")",
       "[data-test=\"view-receipt-button\"]" >>

download_pdf_selectors ==
    << ":text(\"Download PDF\")",
       "text=\"Download PDF\"",
       "button:has-text(\"Download PDF\")",
       "[data-test=\"download-pdf-button\"]" >>

close_button_selectors ==
    << "button[aria-label=\"Close\"]",
       ".ReactModalPortal button",
       ":text(\"x\")" >>

\* all sequences over S of length at most n
SeqUpTo(S, n) == UNION { [1..k -> S] : k \in 0..n }

(* ------------------------------ strings -------------------------------- *)
\* the pos-th character of a string
CharAt(s, pos) == SubSeq(s, pos, pos)

UpperChars == "ABCDEFGHIJKLMNOPQRSTUVWXYZ"
LowerChars == "abcdefghijklmnopqrstuvwxyz"

\* str.lower() of one character
LowerChar(c) ==
    IF \E k \in 1..Len(UpperChars) : CharAt(UpperChars, k) = c
    THEN CharAt(LowerChars, CHOOSE k \in 1..Len(UpperChars) : CharAt(UpperChars, k) = c)
    ELSE c

\* Python's `needle in text`
Contains(text, needle) ==
    \E k \in 1..(Len(text) - Len(needle) + 1) : SubSeq(text, k, k + Len(needle) - 1) = needle

\* Python's `needle in text.lower()`
ContainsLower(text, needle) ==
    \E k \in 1..(Len(text) - Len(needle) + 1) :
        \A j \in 1..Len(needle) : LowerChar(CharAt(text, k + j - 1)) = CharAt(needle, j)

\* does w occur in s at position pos
StartsAt(s, pos, w) ==
    pos >= 1 /\ pos + Len(w) - 1 <= Len(s) /\ SubSeq(s, pos, pos + Len(w) - 1) = w

IsDigit(c) == Contains("0123456789", c)

\* length of the run of digits of s that starts at position pos (the greedy \d+)
DigitRun(s, pos) ==
    CHOOSE n \in 0..Len(s) :
        /\ \A j \in pos..(pos + n - 1) : j <= Len(s) /\ IsDigit(CharAt(s, j))
        /\ ~(pos + n <= Len(s) /\ IsDigit(CharAt(s, pos + n)))

DigitVal(c) == CHOOSE d \in 0..9 : ToString(d) = c

\* the number a string of digits denotes
RECURSIVE NumVal(_)
NumVal(s) ==
    IF Len(s) = 0 THEN 0
    ELSE 10 * NumVal(SubSeq(s, 1, Len(s) - 1)) + DigitVal(CharAt(s, Len(s)))

(* ------------------------------- dates --------------------------------- *)
FullMonths == << "January", "February", "March", "April", "May", "June",
                 "July", "August", "September", "October", "November", "December" >>
AbbrMonths == << "Jan", "Feb", "Mar", "Apr", "May", "Jun",
                 "Jul", "Aug", "Sep", "Oct", "Nov", "Dec" >>

\* the month names of the regular expression's alternation
months == AbbrMonths \o FullMonths

IsLeap(y) == (y % 4 = 0 /\ y % 100 # 0) \/ y % 400 = 0

DaysIn(m, y) ==
    IF m = 2 THEN (IF IsLeap(y) THEN 29 ELSE 28)
    ELSE IF m \in {4, 6, 9, 11} THEN 30 ELSE 31

\* zero-padded two-digit field of strftime (%m, %d)
Pad2(n) == IF n < 10 THEN "0" \o ToString(n) ELSE ToString(n)

\* date_obj.strftime("%Y-%m-%d")
FormatDate(d) == ToString(d[1]) \o "-" \o Pad2(d[2]) \o "-" \o Pad2(d[3])

\* datetime.strptime(f"{month} {day} {year}", fmt) for fmt "%B %d %Y" (names =
\* FullMonths) or "%b %d %Y" (names = AbbrMonths), where day and year are
\* strings of digits: the date, or << >> for ValueError.  %d takes one or two
\* digits, %Y four.
Strptime(names, month, day, year) ==
    IF /\ \E k \in 1..12 : names[k] = month
       /\ Len(day) \in 1..2 /\ Len(year) = 4
       /\ NumVal(year) >= 1
       /\ NumVal(day) >= 1
       /\ NumVal(day) <= DaysIn(CHOOSE k \in 1..12 : names[k] = month, NumVal(year))
    THEN << NumVal(year), CHOOSE k \in 1..12 : names[k] = month, NumVal(day) >>
    ELSE << >>

\* ParseWithFormats that tries "%B %d %Y" only
ParseWithFormats_FullOnly(month, day, year) == Strptime(FullMonths, month, day, year)

\* the loop `for fmt in ["%B %d %Y", "%b %d %Y"]`: first format that parses
ParseWithFormats(month, day, year) ==
    IF Strptime(FullMonths, month, day, year) # << >>
    THEN Strptime(FullMonths, month, day, year)
    ELSE Strptime(AbbrMonths, month, day, year)

\* does rf'({month_pattern}) (\d+)' (with_year FALSE) or
\* rf'({month_pattern}) (\d+) (\d{{4}})' (with_year TRUE) match text at
\* position pos with the k-th name of the alternation
MonthAt(text, pos, k, with_year) ==
    LET dpos == pos + Len(months[k]) + 1
        n    == DigitRun(text, dpos)
    IN  /\ StartsAt(text, pos, months[k] \o " ")
        /\ n >= 1
        /\ with_year => StartsAt(text, dpos + n, " ") /\ DigitRun(text, dpos + n + 1) >= 4

\* re.search of that pattern in text: the groups of the leftmost match
\* (month name, day, and year or ""), or mon = "" when there is no match
DateSearch(text, with_year) ==
    IF \E pos \in 1..Len(text), k \in 1..Len(months) : MonthAt(text, pos, k, with_year)
    THEN LET pos  == CHOOSE p \in 1..Len(text) :
                       /\ \E k \in 1..Len(months) : MonthAt(text, p, k, with_year)
                       /\ \A q \in 1..(p - 1) :
                             ~\E k \in 1..Len(months) : MonthAt(text, q, k, with_year)
             kk   == CHOOSE k \in 1..Len(months) :
                       /\ MonthAt(text, pos, k, with_year)
                       /\ \A j \in 1..(k - 1) : ~MonthAt(text, pos, j, with_year)
             dpos == pos + Len(months[kk]) + 1
             n    == DigitRun(text, dpos)
         IN  [ mon  |-> months[kk],
               day  |-> SubSeq(text, dpos, dpos + n - 1),
               year |-> IF with_year THEN SubSeq(text, dpos + n + 1, dpos + n + 4) ELSE "" ]
    ELSE [ mon |-> "", day |-> "", year |-> "" ]

\* texts the date region of a receipt page can show
DateTexts ==
    { "2:28 PM, Thursday March 6 2025", "Mar 6 - 2:25 PM", "Feb 30", "Receipt" }

\* lines 397-430: the date the two patterns, tried in order, yield for a
\* non-empty date_text, or << >> when neither yields one
ParsedDate(date_text) ==
    LET full  == DateSearch(date_text, TRUE)
        short == DateSearch(date_text, FALSE)
        d1 == IF full.mon # ""
              THEN ParseWithFormats(full.mon, full.day, full.year) ELSE << >>
        d2 == IF short.mon # ""
              THEN ParseWithFormats(short.mon, short.day, ToString(Today[1])) ELSE << >>
    IN  IF d1 # << >> THEN d1 ELSE d2

\* lines 398-430: does one of the two patterns yield a valid date
ParsesAsDate(date_text) == ParsedDate(date_text) # << >>

\* lines 397-434: date_formatted computed from a non-empty date_text
ReceiptDate(date_text) ==
    IF ParsedDate(date_text) # << >> THEN FormatDate(ParsedDate(date_text))
    ELSE FormatDate(Today)

\* lexicographic "<" on datetimes given as equally long tuples
\* <<year, month, day, hour>>
RECURSIVE Before(_, _)
Before(a, b) ==
    IF Len(a) = 0 \/ Len(b) = 0 THEN FALSE
    ELSE IF a[1] # b[1] THEN a[1] < b[1]
    ELSE Before(Tail(a), Tail(b))

(* ----------------------------- extract_cost ---------------------------- *)
\* group(1) of a match of \$(\d+\.\d+) that starts at position pos, or ""
PriceAt(s, pos) ==
    LET n1 == DigitRun(s, pos + 1)
        n2 == DigitRun(s, pos + n1 + 2)
    IN  IF /\ pos <= Len(s) /\ CharAt(s, pos) = "$"
           /\ n1 >= 1
           /\ pos + n1 + 1 <= Len(s) /\ CharAt(s, pos + n1 + 1) = "."
           /\ n2 >= 1
        THEN SubSeq(s, pos + 1, pos + n1 + 1 + n2)
        ELSE ""

\* re.search(r'\$(\d+\.\d+)', text).group(1), or "" when there is no match
PriceSearch(text) ==
    IF \E pos \in 1..Len(text) : PriceAt(text, pos) # ""
    THEN PriceAt(text, CHOOSE pos \in 1..Len(text) :
                          /\ PriceAt(text, pos) # ""
                          /\ \A j \in 1..(pos - 1) : PriceAt(text, j) = "")
    ELSE ""

\* inner texts the page can show in a cost block or next to the Tag icon
CostTexts == { "$24.06", "Fare $", "3.20 mi", "3.20 mi 24.06" }

\* What extract_cost can see of a page: the texts of the cost <div>s, how much
\* of the Tag-icon structure exists (0 no svg, 1 svg only, 2 svg and sibling
\* div, 3 sibling div with a <p>), and the text of that <p>.
CostPages ==
    { [divs |-> d, tag |-> txt, ptext |-> p] :
        d \in SeqUpTo(CostTexts, MaxCostDivs), txt \in 0..3, p \in CostTexts }

\* index of the first div whose text yields a price, 0 if none (lines 70-77)
FirstPricedDiv(divs) ==
    IF \E k \in 1..Len(divs) : Contains(divs[k], "$") /\ PriceSearch(divs[k]) # ""
    THEN CHOOSE k \in 1..Len(divs) :
           /\ Contains(divs[k], "$") /\ PriceSearch(divs[k]) # ""
           /\ \A j \in 1..(k - 1) : ~(Contains(divs[j], "$") /\ PriceSearch(divs[j]) # "")
    ELSE 0

\* length of a match of \d+\.\d{2} that starts at position pos of s, 0 if none
DecimalAt(s, pos) ==
    LET n1 == DigitRun(s, pos)
    IN  IF /\ n1 >= 1
           /\ StartsAt(s, pos + n1, ".")
           /\ DigitRun(s, pos + n1 + 1) >= 2
        THEN n1 + 3 ELSE 0

\* the two-decimal numbers of s from position pos on, in document order
RECURSIVE Decimals(_, _)
Decimals(s, pos) ==
    IF pos > Len(s) THEN << >>
    ELSE IF DecimalAt(s, pos) > 0
         THEN << SubSeq(s, pos, pos + DecimalAt(s, pos) - 1) >>
                  \o Decimals(s, pos + DecimalAt(s, pos))
         ELSE Decimals(s, pos + 1)

\* the texts of a page in document order: the cost blocks, then the
\* paragraph next to the Tag icon when the page has one
RECURSIVE PageText(_, _)
PageText(pg, from) ==
    IF from > Len(pg.divs) THEN (IF pg.tag = 3 THEN pg.ptext ELSE "")
    ELSE pg.divs[from] \o " " \o PageText(pg, from + 1)

\* extract_cost with a third heuristic: the second two-decimal number of the
\* page when neither the cost blocks nor the Tag icon give a price
extract_cost_SecondNumber(pg, fail) ==
    LET m1      == FirstPricedDiv(pg.divs)
        numbers == Decimals(PageText(pg, 1), 1)
    IN  IF fail # 0 THEN [cost |-> "unknown", how |-> "error"]
        ELSE IF m1 # 0 THEN [cost |-> PriceSearch(pg.divs[m1]), how |-> "div"]
        ELSE IF pg.tag = 3 /\ PriceSearch(pg.ptext) # ""
             THEN [cost |-> PriceSearch(pg.ptext), how |-> "tag"]
        ELSE IF Len(numbers) >= 2 THEN [cost |-> numbers[2], how |-> "tag"]
        ELSE [cost |-> "unknown", how |-> "nomatch"]

\* extract_cost that asks the Tag icon first and the cost blocks after it
extract_cost_TagFirst(pg, fail) ==
    LET m1 == FirstPricedDiv(pg.divs)
    IN  IF fail # 0 THEN [cost |-> "unknown", how |-> "error"]
        ELSE IF pg.tag = 3 /\ PriceSearch(pg.ptext) # ""
             THEN [cost |-> PriceSearch(pg.ptext), how |-> "tag"]
        ELSE IF m1 # 0 THEN [cost |-> PriceSearch(pg.divs[m1]), how |-> "div"]
        ELSE [cost |-> "unknown", how |-> "nomatch"]

\* extract_cost(page) on page content pg when the fail-th awaited page call of
\* the function raises (fail = 0: none raises).  The result with the branch
\* that produced it: "div" (line 77), "tag" (line 92), "nomatch" (line 96),
\* "error" (line 99).
extract_cost(pg, fail) ==
    LET m1     == FirstPricedDiv(pg.divs)
        calls1 == 1 + (IF m1 # 0 THEN m1 ELSE Len(pg.divs))
        unknown(how) == [cost |-> "unknown", how |-> how]
    IN  IF fail # 0 /\ fail <= calls1 THEN unknown("error")
        ELSE IF m1 # 0 THEN [cost |-> PriceSearch(pg.divs[m1]), how |-> "div"]
        ELSE IF fail = calls1 + 1 THEN unknown("error")
        ELSE IF pg.tag = 0 THEN unknown("nomatch")
        ELSE IF fail = calls1 + 2 THEN unknown("error")
        ELSE IF pg.tag = 1 THEN unknown("nomatch")
        ELSE IF fail = calls1 + 3 THEN unknown("error")
        ELSE IF pg.tag = 2 THEN unknown("nomatch")
        ELSE IF fail = calls1 + 4 THEN unknown("error")
        ELSE IF PriceSearch(pg.ptext) # ""
             THEN [cost |-> PriceSearch(pg.ptext), how |-> "tag"]
             ELSE unknown("nomatch")

\* the texts of the page main is pointed at in test mode: those above, and
\* texts with more than one "$"
TestTexts == CostTexts \cup { "$7.50 + $3.00", "$12 or $7.50" }

\* the pages of test mode, built as CostPages
TestPages ==
    { [divs |-> d, tag |-> txt, ptext |-> p] :
        d \in SeqUpTo(TestTexts, MaxCostDivs), txt \in 0..3, p \in TestTexts }

\* every outcome extract_cost can have on the pages and failures considered
CostRuns == { extract_cost(pg, f) : pg \in CostPages, f \in 0..(MaxCostDivs + 5) }

(* ------------------------ the receipt's date step ---------------------- *)
\* extract_date without the fallbacks of lines 432-439: date_formatted stays
\* None when nothing was parsed
extract_date_NoFallback(region, date_text) ==
    IF region = "text" /\ ParsesAsDate(date_text)
    THEN [date |-> ReceiptDate(date_text), how |-> "parsed",
          region |-> region, text |-> date_text]
    ELSE [date |-> None, how |-> "fallback", region |-> region, text |-> None]

\* lines 371-439 on a page whose date region is absent (query_selector
\* returns None), has an empty text or has the text date_text, or where a
\* page call of the step raises.  The result with the branch that produced
\* it: "parsed" (lines 409, 422), "fallback" (lines 434, 436), "error" (439);
\* region and text say what the step found on the page.
extract_date(region, date_text) ==
    IF region = "raises"
    THEN [date |-> FormatDate(Today), how |-> "error", region |-> region, text |-> None]
    ELSE IF region = "absent"
    THEN [date |-> FormatDate(Today), how |-> "fallback", region |-> region, text |-> None]
    ELSE IF region = "empty"
    THEN [date |-> FormatDate(Today), how |-> "fallback", region |-> region, text |-> ""]
    ELSE LET parsed == ParsedDate(date_text)
         IN  IF parsed # << >>
             THEN [date |-> FormatDate(parsed), how |-> "parsed",
                   region |-> region, text |-> date_text]
             ELSE [date |-> FormatDate(Today), how |-> "fallback",
                   region |-> region, text |-> date_text]

\* every outcome the date step can have on the pages considered
DateRuns ==
    { extract_date(r, d) : r \in {"raises", "absent", "empty", "text"}, d \in DateTexts }

\* the calendar dates of the last YearsChecked years
Dates ==
    { dt \in ((Today[1] - YearsChecked + 1)..Today[1]) \X (1..12) \X (1..31) :
        dt[3] <= DaysIn(dt[2], dt[1]) }

\* a date written as FullMonths or AbbrMonths name, day and year
Written(names, dt) == names[dt[2]] \o " " \o ToString(dt[3]) \o " " \o ToString(dt[1])

\* date texts the date step is tried on by itself: the texts above, texts
\* with the year in another place, and every date of Dates written with its
\* full month name, with its abbreviated one, without the year, and as
\* strftime("%Y-%m-%d") writes it
CalendarTexts ==
    DateTexts
    \cup { "March 6 2025", "Mar 6", "Mar 6, 2025", "Feb 29 2027", "June 31 2027", "Mar 006" }
    \cup { Written(FullMonths, dt) : dt \in Dates }
    \cup { Written(AbbrMonths, dt) : dt \in Dates }
    \cup { AbbrMonths[dt[2]] \o " " \o ToString(dt[3]) : dt \in Dates }
    \cup { FormatDate(dt) : dt \in Dates }

\* every outcome of the date step on a region that shows one of those texts
CalendarRuns == { extract_date("text", d) : d \in CalendarTexts }

(* ------------------------------ filename ------------------------------- *)
\* Filename with the amount put before the date
Filename_AmountFirst(date_formatted, cost, trip_id) ==
    cost \o "USD-" \o date_formatted \o "-" \o trip_id \o ".pdf"

\* line 442: f"{date_formatted}-{cost}USD-{trip_id}.pdf"
Filename(date_formatted, cost, trip_id) ==
    date_formatted \o "-" \o cost \o "USD-" \o trip_id \o ".pdf"

\* line 444: os.path.join(self.download_dir, filename)
DownloadPath(date_formatted, cost, trip_id) ==
    download_dir \o "/" \o Filename(date_formatted, cost, trip_id)

(* ------------------------ scraped trip entries ------------------------- *)
\* dateText of a scraped entry: None (no date element), or its innerText
EntryDateTexts ==
    { None, "Yesterday", "Feb 30 - 1:00 PM", "Mar 6 - 2:25 PM",
      "August 3 - 9:10 AM", "Oct 10 - 8:05 AM", "December 25 - 6:00 PM" }

\* one element of trips_with_dates: { id, dateText }
Entries == [id : TripIds, dateText : EntryDateTexts]

\* start_date / end_date arguments as <<year, month, day, hour>>; << >> is
\* None.  main passes now - 90 days and now (lines 599, 608).
StartArgs == { << >>, <<2028, 8, 3, 14>> }
EndArgs == { << >>, <<2028, 11, 1, 14>> }

\* lines 219-251: trip_date of an entry's dateText, at midnight, or << >>
\* when there is no text, no match or no valid date (None)
TripDate(date_text) ==
    LET match  == IF date_text \in {None, ""} THEN [mon |-> "", day |-> "", year |-> ""]
                  ELSE DateSearch(date_text, FALSE)
        parsed == IF match.mon = "" THEN << >>
                  ELSE ParseWithFormats(match.mon, match.day, ToString(Today[1]))
    IN  IF parsed = << >> THEN << >> ELSE parsed \o << 0 >>

\* trip_date of every dateText considered
TripDates == [ txt \in EntryDateTexts |-> TripDate(txt) ]

\* KeepsEntry that drops an entry whose date cannot be determined
KeepsEntry_DropsUnparsed(trip, start, end) ==
    LET trip_date == TripDates[trip.dateText]
    IN  /\ trip_date # << >>
        /\ ~(start # << >> /\ Before(trip_date, start))
        /\ ~(end # << >> /\ Before(end, trip_date))

\* lines 214-266: does the date filter keep this entry
KeepsEntry(trip, start, end) ==
    LET trip_date == TripDates[trip.dateText]
    IN  \/ trip_date = << >>
        \/ /\ ~(start # << >> /\ Before(trip_date, start))
           /\ ~(end # << >> /\ Before(end, trip_date))

\* lines 208-269: trip_ids selected from trips_with_dates
RECURSIVE SelectIds(_, _, _)
SelectIds(trips, start, end) ==
    IF trips = << >> THEN << >>
    ELSE IF (start = << >> /\ end = << >>) \/ KeepsEntry(Head(trips), start, end)
         THEN << Head(trips).id >> \o SelectIds(Tail(trips), start, end)
         ELSE SelectIds(Tail(trips), start, end)

\* Unique that keeps the last occurrence of an id instead of the first
RECURSIVE Unique_KeepLast(_, _)
Unique_KeepLast(ids, seen) ==
    IF ids = << >> THEN << >>
    ELSE IF \E k \in 2..Len(ids) : ids[k] = Head(ids)
         THEN Unique_KeepLast(Tail(ids), seen)
         ELSE << Head(ids) >> \o Unique_KeepLast(Tail(ids), seen)

\* lines 272-273: remove duplicates while preserving order
RECURSIVE Unique(_, _)
Unique(ids, seen) ==
    IF ids = << >> THEN << >>
    ELSE IF Head(ids) \in seen THEN Unique(Tail(ids), seen)
         ELSE << Head(ids) >> \o Unique(Tail(ids), seen \cup {Head(ids)})

(* ------------------------------- state --------------------------------- *)
VARIABLES
    pc,                 \* position of the (single, sequential) control flow
    browser, context,   \* self.browser / self.context are set
    page,               \* self.page is set
    pages_created,      \* number of context.new_page() calls that returned
    arg_ids,            \* trip_ids argument of download_multiple_receipts (<< >>: None or [])
    start_date, end_date, \* its date arguments (<< >>: None)
    trip_ids,           \* the list the batch loop iterates
    trips_with_dates,   \* fetch_trip_ids: entries recorded so far
    i,                  \* batch loop: index of the current trip (1-based)
    results,            \* batch loop: (trip_id, result) pairs appended so far
    t,                  \* the running download_receipt call (record below)
    hist                \* what the run has done so far (record below)

vars == << pc, browser, context, page, pages_created, arg_ids, start_date,
           end_date, trip_ids, trips_with_dates, i, results, t, hist >>

\* What the run has done so far, outside download_receipt.
\*   more_clicks   clicks on the 'More' button by the running fetch_trip_ids
\*   fetch_failed  the handler of lines 278-280 has run
\*   closes        number of close() calls
\*   close_error   a call inside close() raised (caught at line 550)
\*   closed_after  where main was when close() was called
NewHist ==
    [ more_clicks |-> 0, fetch_failed |-> FALSE, closes |-> 0, close_error |-> FALSE,
      closed_after |-> None ]

\* Locals of one download_receipt call, and what the call has done so far.
\*   sel                index of the selector the current loop is at
\*   receipt_clicked, pdf_button_found, download_path, cost, date_formatted
\*                      the locals of those names
\*   armed              inside `async with page.expect_download()`
\*   download           the download event was received by the current attempt
\*   view_probed, view_clicked   view-receipt selectors probed / clicked, in order
\*   view_seen          view-receipt selectors whose probe returned visible
\*                      (the three are kept until the download selectors are probed)
\*   scan_clicked       text of the button the last-resort scan clicked
\*   scanned            the last-resort scan has run
\*   all_buttons        the <button> texts of the page the scan ran on
\*   scan_clicks        positions in all_buttons of the buttons the scan clicked
\*   dl_probed, dl_clicked       download selectors probed / clicked, in order
\*   dl_seen            download selectors that were visible when probed
\*   text_found         what the search of the body text found (lines 484-505)
\*   ended              how the call ended: "return" (line 480), "handler"
\*                      (lines 510-512), "end" (the end of the function body)
\*   arms               number of times a download listener was armed
\*   unarmed_clicks     download clicks issued while no listener was armed
\*   clicks_at_extract  download clicks issued before the page was read for
\*                      amount and date (-1: not read)
\*   received, timed_out  a download event was received / a wait timed out
\*   written            paths save_as completed for
\*   cost_how, date_how how the extraction steps of the last attempt ended
\*   date_region, date_text  what the date step found on the page: the region
\*                      ("raises", "absent", "empty", "text") and the local
\*                      date_text (kept until the path is built)
\*   raised             some awaited step of the call raised
\*   close_probed, close_clicked  close selectors probed / clicked, in order
\*   close_seen         close selectors that were visible when probed
\*   escapes            number of times the Escape key was pressed
\*   close_how          how dismissing the dialog ended
\*   ret                the value returned ("running" until then)
NewTrip ==
    [ sel |-> 0, receipt_clicked |-> FALSE, pdf_button_found |-> FALSE,
      download_path |-> None, cost |-> None, date_formatted |-> None,
      armed |-> FALSE, download |-> FALSE,
      view_probed |-> << >>, view_clicked |-> << >>, view_seen |-> {},
      scan_clicked |-> None,
      scanned |-> FALSE, all_buttons |-> << >>, scan_clicks |-> << >>,
      dl_probed |-> << >>, dl_clicked |-> << >>, dl_seen |-> {}, arms |-> 0,
      text_found |-> None, ended |-> None,
      unarmed_clicks |-> 0, clicks_at_extract |-> -1,
      received |-> FALSE, timed_out |-> FALSE, written |-> {},
      cost_how |-> None, date_how |-> None,
      date_region |-> None, date_text |-> None, raised |-> FALSE,
      close_probed |-> << >>, close_clicked |-> << >>, close_seen |-> {},
      escapes |-> 0,
      close_how |-> None, ret |-> "running" ]

Init ==
    /\ pc = "call"
    /\ browser = FALSE /\ context = FALSE /\ page = FALSE
    /\ pages_created = 0
    /\ arg_ids = << >> /\ start_date = << >> /\ end_date = << >>
    /\ trip_ids = << >> /\ trips_with_dates = << >>
    /\ i = 0 /\ results = << >>
    /\ t = NewTrip
    /\ hist = NewHist

(* -------------------- download_multiple_receipts ----------------------- *)
\* a caller connects first, as main does (line 576, connect_to_browser)
ConnectFirst ==
    /\ pc = "call"
    /\ ~browser
    /\ \E ok \in BOOLEAN :
          IF ok THEN browser' = TRUE /\ context' = TRUE /\ pc' = pc
                ELSE UNCHANGED << browser, context >> /\ pc' = "raised"
    /\ UNCHANGED << page, pages_created, arg_ids, start_date, end_date, trip_ids,
                    trips_with_dates, i, results, t >>
    /\ UNCHANGED hist

\* a caller invokes download_multiple_receipts(trip_ids, start_date, end_date)
Call ==
    /\ pc = "call"
    /\ \E ids \in SeqUpTo(TripIds, MaxTrips), sd \in StartArgs, ed \in EndArgs :
          /\ arg_ids' = ids /\ trip_ids' = ids
          /\ start_date' = sd /\ end_date' = ed
    /\ pc' = "dmr_connect"
    /\ UNCHANGED << browser, context, page, pages_created, trips_with_dates, i, results, t >>
    /\ UNCHANGED hist

\* Connect in which the error of connect_to_browser is swallowed and the
\* batch goes on without a session
Connect_SwallowsError ==
    /\ pc = "dmr_connect"
    /\ IF browser
       THEN UNCHANGED << browser, context >>
       ELSE \E ok \in BOOLEAN :
              IF ok THEN browser' = TRUE /\ context' = TRUE
                    ELSE UNCHANGED << browser, context >>
    /\ pc' = "dmr_check"
    /\ UNCHANGED << page, pages_created, arg_ids, start_date, end_date, trip_ids,
                    trips_with_dates, i, results, t >>
    /\ UNCHANGED hist

\* lines 517-518: connect_to_browser (lines 44-62) is called when self.browser
\* is not set; it connects, or prints and re-raises
Connect ==
    /\ pc = "dmr_connect"
    /\ IF browser
       THEN pc' = "dmr_check" /\ UNCHANGED << browser, context >>
       ELSE \E ok \in BOOLEAN :
              IF ok THEN browser' = TRUE /\ context' = TRUE /\ pc' = "dmr_check"
                    ELSE UNCHANGED << browser, context >> /\ pc' = "raised"
    /\ UNCHANGED << page, pages_created, arg_ids, start_date, end_date, trip_ids,
                    trips_with_dates, i, results, t >>
    /\ UNCHANGED hist

\* lines 525-529: where the batch goes once trip_ids is known
EnterLoop(ids) == IF ids = << >> THEN "returned" ELSE "dr_start"

\* CheckIds in which a date range sends the batch to the trips page even
\* though a list was supplied
CheckIds_FetchWhenDates ==
    /\ pc = "dmr_check"
    /\ pc' = IF trip_ids = << >> \/ start_date # << >> \/ end_date # << >>
             THEN "fetch_page" ELSE "dr_start"
    /\ i' = 1
    /\ UNCHANGED << browser, context, page, pages_created, arg_ids, start_date,
                    end_date, trip_ids, trips_with_dates, results, t >>
    /\ UNCHANGED hist

\* lines 521-523: an absent or empty list is fetched from the trips page
CheckIds ==
    /\ pc = "dmr_check"
    /\ pc' = IF trip_ids = << >> THEN "fetch_page" ELSE "dr_start"
    /\ i' = 1
    /\ UNCHANGED << browser, context, page, pages_created, arg_ids, start_date,
                    end_date, trip_ids, trips_with_dates, results, t >>
    /\ UNCHANGED hist

(* ---------------------------- fetch_trip_ids --------------------------- *)
\* lines 103-107: the connection check, and a page is opened if there is none
\* (outside the try: an error here propagates to the caller)
FetchPage ==
    /\ pc = "fetch_page"
    /\ IF ~browser \/ ~context
       THEN pc' = "raised" /\ UNCHANGED << page, pages_created >>
       ELSE IF page
       THEN pc' = "fetch_load" /\ UNCHANGED << page, pages_created >>
       ELSE \E ok \in BOOLEAN :
              IF ok THEN page' = TRUE /\ pages_created' = pages_created + 1
                         /\ pc' = "fetch_load"
                    ELSE pc' = "raised" /\ UNCHANGED << page, pages_created >>
    /\ UNCHANGED << browser, context, arg_ids, start_date, end_date, trip_ids,
                    trips_with_dates, i, results, t >>
    /\ UNCHANGED hist

\* lines 109-152: goto, wait_for_selector and the first scrape succeed
FetchLoad ==
    /\ pc = "fetch_load"
    /\ \E trips \in SeqUpTo(Entries, MaxEntries) : trips_with_dates' = trips
    /\ pc' = "fetch_more"
    /\ UNCHANGED << browser, context, page, pages_created, arg_ids, start_date,
                    end_date, trip_ids, i, results, t >>
    /\ UNCHANGED hist

\* FetchLoadFails in which the error leaves fetch_trip_ids and the batch
FetchLoadFails_Raises ==
    /\ pc = "fetch_load"
    /\ pc' = "raised"
    /\ UNCHANGED << browser, context, page, pages_created, arg_ids, start_date,
                    end_date, trip_ids, trips_with_dates, i, results, t >>
    /\ hist' = [hist EXCEPT !.fetch_failed = TRUE]

\* lines 278-280: an error of goto, wait_for_selector or the first scrape:
\* fetch_trip_ids returns [], and lines 525-527 return [] from the batch
FetchLoadFails ==
    /\ pc = "fetch_load"
    /\ trip_ids' = << >> /\ trips_with_dates' = << >>
    /\ pc' = EnterLoop(<< >>)
    /\ UNCHANGED << browser, context, page, pages_created, arg_ids, start_date,
                    end_date, i, results, t >>
    /\ hist' = [hist EXCEPT !.fetch_failed = TRUE]

\* FetchMore that takes whatever the new scrape returned and goes on clicking
\* (at most MaxEntries + 2 times)
FetchMore_TakesAnyScrape ==
    /\ pc = "fetch_more"
    /\ hist.more_clicks < MaxEntries + 2
    /\ \E new_trips \in SeqUpTo(Entries, MaxEntries) :
          trips_with_dates' = new_trips /\ pc' = "fetch_more"
    /\ UNCHANGED << browser, context, page, pages_created, arg_ids, start_date,
                    end_date, trip_ids, i, results, t >>
    /\ hist' = [hist EXCEPT !.more_clicks = @ + 1]

\* lines 158-203: one iteration of the 'More' loop in which the button is
\* visible, the click succeeds and the page is scraped again
FetchMore ==
    /\ pc = "fetch_more"
    /\ \/ \E n \in (Len(trips_with_dates) + 1)..MaxEntries :
             \E new_trips \in [1..n -> Entries] :
                trips_with_dates' = new_trips /\ pc' = "fetch_more"
       \/ \E n \in 0..Len(trips_with_dates) :
             trips_with_dates' = trips_with_dates /\ pc' = "fetch_select"
    /\ UNCHANGED << browser, context, page, pages_created, arg_ids, start_date,
                    end_date, trip_ids, i, results, t >>
    /\ hist' = [hist EXCEPT !.more_clicks = @ + 1]

\* lines 158, 204-205: the button is not visible, or is_visible, click or the
\* scrape raises: the loop ends with the entries recorded so far
FetchMoreEnds ==
    /\ pc = "fetch_more"
    /\ pc' = "fetch_select"
    /\ UNCHANGED << browser, context, page, pages_created, arg_ids, start_date,
                    end_date, trip_ids, trips_with_dates, i, results, t >>
    /\ UNCHANGED hist

\* lines 207-275: filter by date and remove duplicates (unique_trip_ids)
FetchSelect ==
    /\ pc = "fetch_select"
    /\ trip_ids' = Unique(SelectIds(trips_with_dates, start_date, end_date), {})
    /\ pc' = "fetch_return"
    /\ UNCHANGED << browser, context, page, pages_created, arg_ids, start_date,
                    end_date, trips_with_dates, i, results, t >>
    /\ UNCHANGED hist

\* lines 276, 523-529: fetch_trip_ids returns unique_trip_ids, its locals go
\* out of scope, and the batch goes on with the returned list
FetchReturn ==
    /\ pc = "fetch_return"
    /\ trips_with_dates' = << >>
    /\ pc' = EnterLoop(trip_ids)
    /\ UNCHANGED << browser, context, page, pages_created, arg_ids, start_date,
                    end_date, trip_ids, i, results, t >>
    /\ hist' = [hist EXCEPT !.more_clicks = 0]

(* --------------------------- download_receipt -------------------------- *)
trip_id == trip_ids[i]

\* lines 510-512: an error reaches the handler of the call: it returns None
Fail(tt) ==
    [tt EXCEPT !.ret = None, !.raised = TRUE, !.armed = FALSE, !.ended = "handler"]

\* lines 305, 315: `continue` / loop end of the view-receipt selector loop
NextView(sel) == IF sel < Len(view_receipt_selectors) THEN "view_probe" ELSE "view_scan"

\* lines 348, 482: `continue` / loop end of the download selector loop
NextDl(sel) == IF sel < Len(download_pdf_selectors) THEN "dl_probe" ELSE "dl_text"

\* Navigate that opens a new page for every trip
Navigate_NewPageEachTrip ==
    /\ pc = "dr_start"
    /\ IF ~browser \/ ~context
       THEN pc' = "raised" /\ UNCHANGED << page, pages_created, t >>
       ELSE \E r \in {"ok", "new_page_raises", "goto_raises"} :
              /\ IF r # "new_page_raises"
                 THEN page' = TRUE /\ pages_created' = pages_created + 1
                 ELSE UNCHANGED << page, pages_created >>
              /\ IF r = "ok"
                 THEN t' = [t EXCEPT !.sel = 1] /\ pc' = "view_probe"
                 ELSE t' = Fail(t) /\ pc' = "dr_return"
    /\ UNCHANGED << browser, context, arg_ids, start_date, end_date, trip_ids,
                    trips_with_dates, i, results >>
    /\ UNCHANGED hist

\* lines 284-294: the connection check, the page is opened if there is none,
\* and the trip page is loaded
Navigate ==
    /\ pc = "dr_start"
    /\ IF ~browser \/ ~context
       THEN pc' = "raised" /\ UNCHANGED << page, pages_created, t >>
       ELSE \E r \in {"ok", "new_page_raises", "goto_raises"} :
              /\ r = "new_page_raises" => ~page
              /\ IF ~page /\ r # "new_page_raises"
                 THEN page' = TRUE /\ pages_created' = pages_created + 1
                 ELSE UNCHANGED << page, pages_created >>
              /\ IF r = "ok"
                 THEN t' = [t EXCEPT !.sel = 1] /\ pc' = "view_probe"
                 ELSE t' = Fail(t) /\ pc' = "dr_return"
    /\ UNCHANGED << browser, context, arg_ids, start_date, end_date, trip_ids,
                    trips_with_dates, i, results >>
    /\ UNCHANGED hist

\* lines 305-309, 314-315: is_visible for the current view-receipt selector
ViewProbe ==
    /\ pc = "view_probe"
    /\ \E r \in {"visible", "hidden", "error"} :
          /\ t' = [t EXCEPT !.view_probed = Append(@, t.sel),
                            !.view_seen = IF r = "visible" THEN @ \cup {t.sel} ELSE @,
                            !.raised = @ \/ r = "error",
                            !.sel = IF r = "visible" THEN @ ELSE @ + 1]
          /\ pc' = IF r = "visible" THEN "view_click" ELSE NextView(t.sel)
    /\ UNCHANGED << browser, context, page, pages_created, arg_ids, start_date,
                    end_date, trip_ids, trips_with_dates, i, results >>
    /\ UNCHANGED hist

\* lines 310-315, 335-345: the click on the visible view-receipt selector
ViewClick ==
    /\ pc = "view_click"
    /\ \E ok \in BOOLEAN :
          IF ok
          THEN /\ t' = [t EXCEPT !.view_clicked = Append(@, t.sel),
                                 !.receipt_clicked = TRUE, !.sel = 1]
               /\ pc' = "dl_probe"
          ELSE /\ t' = [t EXCEPT !.view_clicked = Append(@, t.sel),
                                 !.raised = TRUE, !.sel = @ + 1]
               /\ pc' = NextView(t.sel)
    /\ UNCHANGED << browser, context, page, pages_created, arg_ids, start_date,
                    end_date, trip_ids, trips_with_dates, i, results >>
    /\ UNCHANGED hist

\* visible texts of the page's <button> elements
ButtonTexts == { "View Receipt", "Overview", "Help" }

\* a scan that takes any button
ScanMatches_Any(text) == text = text

\* line 324
ScanMatches(text) == ContainsLower(text, "receipt") \/ ContainsLower(text, "view")

\* index of the first button the scan would click, 0 if none (lines 322-328)
FirstScanMatch(all_buttons) ==
    IF \E k \in 1..Len(all_buttons) : ScanMatches(all_buttons[k])
    THEN CHOOSE k \in 1..Len(all_buttons) :
           /\ ScanMatches(all_buttons[k])
           /\ \A j \in 1..(k - 1) : ~ScanMatches(all_buttons[j])
    ELSE 0

\* lines 320-330: the last-resort scan over all_buttons when the fail-th
\* awaited page call of the scan raises (0: none): query_selector_all, then
\* inner_text of each button up to the first match, then the click on it.
\* The text of the button clicked (None: no click) and receipt_clicked.
ScanButtons(all_buttons, fail) ==
    LET m      == FirstScanMatch(all_buttons)
        reads  == 1 + (IF m # 0 THEN m ELSE Len(all_buttons))
        early  == fail # 0 /\ fail <= reads
        click  == ~early /\ m # 0
    IN  [ buttons |-> all_buttons,
          clicks |-> IF click THEN << m >> ELSE << >>,
          clicked |-> IF click THEN all_buttons[m] ELSE None,
          receipt_clicked |-> click /\ fail # reads + 1,
          error |-> early \/ (click /\ fail = reads + 1) ]

\* every outcome the scan can have on the button lists and failures considered
ScanRuns ==
    { ScanButtons(b, f) : b \in SeqUpTo(ButtonTexts, MaxButtons), f \in 0..(MaxButtons + 2) }

\* ViewScan without the error of lines 332-333: the download selector loop is
\* entered although nothing was clicked
ViewScan_NoRaise ==
    /\ pc = "view_scan"
    /\ \E run \in ScanRuns :
          t' = [t EXCEPT !.scan_clicked = run.clicked,
                         !.scanned = TRUE, !.all_buttons = run.buttons, !.scan_clicks = run.clicks,
                         !.receipt_clicked = run.receipt_clicked,
                         !.raised = @ \/ run.error, !.sel = 1]
    /\ pc' = "dl_probe"
    /\ UNCHANGED << browser, context, page, pages_created, arg_ids, start_date,
                    end_date, trip_ids, trips_with_dates, i, results >>
    /\ UNCHANGED hist

\* lines 317-345: the last-resort scan, then the error of line 333 or the
\* download selector loop
ViewScan ==
    /\ pc = "view_scan"
    /\ \E run \in ScanRuns :
          IF run.receipt_clicked
          THEN /\ t' = [t EXCEPT !.scan_clicked = run.clicked,
                                 !.scanned = TRUE, !.all_buttons = run.buttons,
                                 !.scan_clicks = run.clicks,
                                 !.receipt_clicked = TRUE, !.sel = 1]
               /\ pc' = "dl_probe"
          ELSE /\ t' = Fail([t EXCEPT !.scan_clicked = run.clicked,
                                      !.scanned = TRUE, !.all_buttons = run.buttons,
                                      !.scan_clicks = run.clicks])
               /\ pc' = "dr_return"
    /\ UNCHANGED << browser, context, page, pages_created, arg_ids, start_date,
                    end_date, trip_ids, trips_with_dates, i, results >>
    /\ UNCHANGED hist

\* lines 481-482: an error inside the body of the download selector loop
\* leaves the `async with` and goes on with the next selector; cost,
\* date_formatted and download_path are not read again before they are set
Continue(tt) ==
    [tt EXCEPT !.raised = TRUE, !.armed = FALSE, !.download = FALSE, !.sel = @ + 1,
               !.cost = None, !.date_formatted = None, !.download_path = None,
               !.cost_how = None, !.date_how = None, !.clicks_at_extract = -1,
               !.date_region = None, !.date_text = None]

\* lines 348-354, 357, 481-482: is_visible for the current download selector
DlProbe ==
    /\ pc = "dl_probe"
    /\ \E r \in {"visible", "hidden", "error"} :
          /\ t' = [t EXCEPT !.dl_probed = Append(@, t.sel),
                            !.view_probed = << >>, !.view_clicked = << >>,
                            !.view_seen = {}, !.scan_clicked = None,
                            !.scanned = FALSE,
                            !.all_buttons = << >>, !.scan_clicks = << >>,
                            !.dl_seen = IF r = "visible" THEN @ \cup {t.sel} ELSE @,
                            !.pdf_button_found = @ \/ r = "visible",
                            !.download_path = IF r = "visible" THEN None ELSE @,
                            !.raised = @ \/ r = "error",
                            !.sel = IF r = "visible" THEN @ ELSE @ + 1]
          /\ pc' = IF r = "visible" THEN "dl_arm" ELSE NextDl(t.sel)
    /\ UNCHANGED << browser, context, page, pages_created, arg_ids, start_date,
                    end_date, trip_ids, trips_with_dates, i, results >>
    /\ UNCHANGED hist

\* DlArm that arms no listener before the click
DlArm_NotArmed ==
    /\ pc = "dl_arm"
    /\ t' = [t EXCEPT !.download = FALSE]
    /\ pc' = "dl_click"
    /\ UNCHANGED << browser, context, page, pages_created, arg_ids, start_date,
                    end_date, trip_ids, trips_with_dates, i, results >>
    /\ UNCHANGED hist

\* line 358: `async with self.page.expect_download()` is entered
DlArm ==
    /\ pc = "dl_arm"
    /\ t' = [t EXCEPT !.armed = TRUE, !.arms = @ + 1, !.download = FALSE]
    /\ pc' = "dl_click"
    /\ UNCHANGED << browser, context, page, pages_created, arg_ids, start_date,
                    end_date, trip_ids, trips_with_dates, i, results >>
    /\ UNCHANGED hist

\* line 360: the click on the download selector; an error leaves the
\* `async with` and is caught at lines 481-482
DlClick ==
    /\ pc = "dl_click"
    /\ \E ok \in BOOLEAN :
          LET clicked == [t EXCEPT !.dl_clicked = Append(@, t.sel),
                                   !.unarmed_clicks = IF t.armed THEN @ ELSE @ + 1]
          IN  IF ok
              THEN t' = clicked /\ pc' = "dl_wait"
              ELSE /\ t' = Continue(clicked)
                   /\ pc' = NextDl(t.sel)
    /\ UNCHANGED << browser, context, page, pages_created, arg_ids, start_date,
                    end_date, trip_ids, trips_with_dates, i, results >>
    /\ UNCHANGED hist

\* DlWait that goes on to extraction and save after a timeout
DlWait_SaveAfterTimeout ==
    /\ pc = "dl_wait"
    /\ \E r \in {"download", "timeout", "error"} :
          CASE r = "download" ->
                 /\ t' = [t EXCEPT !.download = TRUE, !.received = TRUE]
                 /\ pc' = "extract_cost"
            [] r = "timeout" ->
                 /\ t' = [t EXCEPT !.timed_out = TRUE]
                 /\ pc' = "extract_cost"
            [] r = "error" ->
                 /\ t' = Continue(t)
                 /\ pc' = NextDl(t.sel)
    /\ UNCHANGED << browser, context, page, pages_created, arg_ids, start_date,
                    end_date, trip_ids, trips_with_dates, i, results >>
    /\ UNCHANGED hist

\* lines 365, 453-457: wait_for(download_info.value, 10.0) returns the
\* download, times out (caught at line 453, the dialog is closed next), or
\* raises another error (caught at lines 481-482)
DlWait ==
    /\ pc = "dl_wait"
    /\ \E r \in {"download", "timeout", "error"} :
          CASE r = "download" ->
                 /\ t' = [t EXCEPT !.download = TRUE, !.received = TRUE]
                 /\ pc' = "extract_cost"
            [] r = "timeout" ->
                 /\ t' = [t EXCEPT !.timed_out = TRUE, !.armed = FALSE, !.sel = 1]
                 /\ pc' = "close_probe"
            [] r = "error" ->
                 /\ t' = Continue(t)
                 /\ pc' = NextDl(t.sel)
    /\ UNCHANGED << browser, context, page, pages_created, arg_ids, start_date,
                    end_date, trip_ids, trips_with_dates, i, results >>
    /\ UNCHANGED hist

\* ExtractCost in which an error of a page query is not caught by
\* extract_cost and reaches lines 481-482
ExtractCost_Raises ==
    /\ pc = "extract_cost"
    /\ \E run \in CostRuns :
          IF run.how = "error"
          THEN t' = Continue(t) /\ pc' = NextDl(t.sel)
          ELSE /\ t' = [t EXCEPT !.cost = run.cost, !.cost_how = run.how,
                                 !.clicks_at_extract = Len(t.dl_clicked)]
               /\ pc' = "extract_date"
    /\ UNCHANGED << browser, context, page, pages_created, arg_ids, start_date,
                    end_date, trip_ids, trips_with_dates, i, results >>
    /\ UNCHANGED hist

\* line 368: cost = await self.extract_cost(self.page)
ExtractCost ==
    /\ pc = "extract_cost"
    /\ \E run \in CostRuns :
          t' = [t EXCEPT !.cost = run.cost, !.cost_how = run.how,
                         !.clicks_at_extract = Len(t.dl_clicked)]
    /\ pc' = "extract_date"
    /\ UNCHANGED << browser, context, page, pages_created, arg_ids, start_date,
                    end_date, trip_ids, trips_with_dates, i, results >>
    /\ UNCHANGED hist

\* lines 371-439: date_formatted from the date region of the page, for the
\* outcomes `runs` of the step
ExtractDateFrom(runs) ==
    /\ pc = "extract_date"
    /\ \E run \in runs :
          t' = [t EXCEPT !.date_formatted = run.date, !.date_how = run.how,
                         !.date_region = run.region, !.date_text = run.text]
    /\ pc' = "dl_save"
    /\ UNCHANGED << browser, context, page, pages_created, arg_ids, start_date,
                    end_date, trip_ids, trips_with_dates, i, results >>
    /\ UNCHANGED hist

ExtractDate == ExtractDateFrom(DateRuns)

\* the same step on a page whose date region shows one of CalendarTexts
ExtractCalendarDate == ExtractDateFrom(CalendarRuns)

\* lines 441-451, 455-457: the path is built, the directory made, the download
\* saved; an error of makedirs or save_as is caught at lines 481-482
Save ==
    /\ pc = "dl_save"
    /\ \E ok \in BOOLEAN :
          LET path == DownloadPath(t.date_formatted, t.cost, trip_id)
          IN  IF ok
              THEN /\ t' = [t EXCEPT !.download_path = path, !.written = @ \cup {path},
                                     !.armed = FALSE, !.sel = 1,
                                     !.date_region = None, !.date_text = None]
                   /\ pc' = "close_probe"
              ELSE /\ t' = Continue([t EXCEPT !.download_path = path])
                   /\ pc' = NextDl(t.sel)
    /\ UNCHANGED << browser, context, page, pages_created, arg_ids, start_date,
                    end_date, trip_ids, trips_with_dates, i, results >>
    /\ UNCHANGED hist

\* Return in which an error while closing the dialog fails the trip
Return_NoneOnCloseError(tt, how) ==
    [tt EXCEPT !.close_how = how, !.ended = "return",
               !.ret = IF how \in {"probe_error", "click_error", "escape_error"}
                       THEN None ELSE tt.download_path]

\* line 480: return download_path
Return(tt, how) ==
    [tt EXCEPT !.close_how = how, !.ret = tt.download_path, !.ended = "return"]

\* lines 468-469, 473, 477-480: is_visible for the current close selector
CloseProbe ==
    /\ pc = "close_probe"
    /\ \E r \in {"visible", "hidden", "error"} :
          LET probed == [t EXCEPT !.close_probed = Append(@, t.sel)]
          IN  CASE r = "visible" ->
                     /\ t' = [probed EXCEPT !.close_seen = @ \cup {t.sel}]
                     /\ pc' = "close_click"
                [] r = "hidden" ->
                     /\ t' = [probed EXCEPT !.sel = @ + 1]
                     /\ pc' = IF t.sel < Len(close_button_selectors)
                              THEN "close_probe" ELSE "close_escape"
                [] r = "error" ->
                     /\ t' = Return([probed EXCEPT !.raised = TRUE], "probe_error")
                     /\ pc' = "dr_return"
    /\ UNCHANGED << browser, context, page, pages_created, arg_ids, start_date,
                    end_date, trip_ids, trips_with_dates, i, results >>
    /\ UNCHANGED hist

\* CloseClick that presses Escape as well after the click
CloseClick_AlsoEscape ==
    /\ pc = "close_click"
    /\ \E ok \in BOOLEAN :
          LET clicked == [t EXCEPT !.close_clicked = Append(@, t.sel),
                                   !.escapes = @ + 1]
          IN  t' = IF ok THEN Return(clicked, "click")
                         ELSE Return([clicked EXCEPT !.raised = TRUE], "click_error")
    /\ pc' = "dr_return"
    /\ UNCHANGED << browser, context, page, pages_created, arg_ids, start_date,
                    end_date, trip_ids, trips_with_dates, i, results >>
    /\ UNCHANGED hist

\* lines 470-472, 477-480: the click on the visible close selector
CloseClick ==
    /\ pc = "close_click"
    /\ \E ok \in BOOLEAN :
          LET clicked == [t EXCEPT !.close_clicked = Append(@, t.sel)]
          IN  t' = IF ok THEN Return(clicked, "click")
                         ELSE Return([clicked EXCEPT !.raised = TRUE], "click_error")
    /\ pc' = "dr_return"
    /\ UNCHANGED << browser, context, page, pages_created, arg_ids, start_date,
                    end_date, trip_ids, trips_with_dates, i, results >>
    /\ UNCHANGED hist

\* lines 473-480: no close selector was visible: the Escape key
CloseEscape ==
    /\ pc = "close_escape"
    /\ \E ok \in BOOLEAN :
          LET pressed == [t EXCEPT !.escapes = @ + 1]
          IN  t' = IF ok THEN Return(pressed, "escape")
                         ELSE Return([pressed EXCEPT !.raised = TRUE], "escape_error")
    /\ pc' = "dr_return"
    /\ UNCHANGED << browser, context, page, pages_created, arg_ids, start_date,
                    end_date, trip_ids, trips_with_dates, i, results >>
    /\ UNCHANGED hist

\* DlText that clicks the element whose text it found
DlText_ClicksFound ==
    /\ pc = "dl_text"
    /\ \E r \in {"download pdf", "download and pdf", "neither", "error"} :
          LET found == t.pdf_button_found \/ r \in {"download pdf", "download and pdf"}
          IN  /\ t.pdf_button_found => r = "neither"
              /\ t' = IF found
                      THEN [t EXCEPT !.pdf_button_found = TRUE, !.ret = None,
                                     !.text_found = r, !.ended = "end",
                                     !.dl_clicked = Append(@, 0)]
                      ELSE Fail([t EXCEPT !.text_found = r])
    /\ pc' = "dr_return"
    /\ UNCHANGED << browser, context, page, pages_created, arg_ids, start_date,
                    end_date, trip_ids, trips_with_dates, i, results >>
    /\ UNCHANGED hist

\* lines 484-512: after the download selector loop.  When no selector was
\* visible the body text is searched; finding the words only sets
\* pdf_button_found.  Without it the error of line 508 is raised and caught at
\* line 510; with it the function ends without a return statement.
DlText ==
    /\ pc = "dl_text"
    /\ \E r \in {"download pdf", "download and pdf", "neither", "error"} :
          LET found == t.pdf_button_found \/ r \in {"download pdf", "download and pdf"}
          IN  /\ t.pdf_button_found => r = "neither"
              /\ t' = IF found
                      THEN [t EXCEPT !.pdf_button_found = TRUE, !.ret = None,
                                     !.text_found = r, !.ended = "end"]
                      ELSE Fail([t EXCEPT !.text_found = r])
    /\ pc' = "dr_return"
    /\ UNCHANGED << browser, context, page, pages_created, arg_ids, start_date,
                    end_date, trip_ids, trips_with_dates, i, results >>
    /\ UNCHANGED hist

\* AppendResult in which a failed trip ends the batch
AppendResult_StopOnFailure ==
    /\ pc = "dr_return"
    /\ results' = Append(results, << trip_id, t.ret >>)
    /\ i' = i + 1
    /\ t' = NewTrip
    /\ pc' = IF i < Len(trip_ids) /\ t.ret # None THEN "dr_start" ELSE "returned"
    /\ UNCHANGED << browser, context, page, pages_created, arg_ids, start_date,
                    end_date, trip_ids, trips_with_dates >>
    /\ UNCHANGED hist

\* lines 534-539: the result is appended and the loop moves on
AppendResult ==
    /\ pc = "dr_return"
    /\ results' = Append(results, << trip_id, t.ret >>)
    /\ i' = i + 1
    /\ t' = NewTrip
    /\ pc' = IF i < Len(trip_ids) THEN "dr_start" ELSE "returned"
    /\ UNCHANGED << browser, context, page, pages_created, arg_ids, start_date,
                    end_date, trip_ids, trips_with_dates >>
    /\ UNCHANGED hist

Next ==
    \/ ConnectFirst \/ Call \/ Connect \/ CheckIds
    \/ FetchPage \/ FetchLoad \/ FetchLoadFails \/ FetchMore \/ FetchMoreEnds \/ FetchSelect
    \/ FetchReturn
    \/ Navigate \/ ViewProbe \/ ViewClick \/ ViewScan
    \/ DlProbe \/ DlArm \/ DlClick \/ DlWait \/ ExtractCost \/ ExtractDate \/ Save
    \/ CloseProbe \/ CloseClick \/ CloseEscape \/ DlText
    \/ AppendResult

Spec == Init /\ [][Next]_vars

(* ------------- the selection step of fetch_trip_ids on its own --------- *)
\* fetch_trip_ids has scraped the trips page (lines 109-205) of a batch that
\* was called without a list; the entries it recorded are drawn here
InitFetch ==
    /\ pc = "fetch_select"
    /\ browser = TRUE /\ context = TRUE /\ page = TRUE
    /\ pages_created = 1
    /\ arg_ids = << >> /\ trip_ids = << >>
    /\ start_date \in StartArgs /\ end_date \in EndArgs
    /\ trips_with_dates \in SeqUpTo(Entries, MaxScraped)
    /\ i = 1 /\ results = << >>
    /\ t = NewTrip
    /\ hist = NewHist

NextFetch == FetchSelect \/ FetchReturn

SpecFetch == InitFetch /\ [][NextFetch]_vars

(* ------------------- fetch_trip_ids, run to its end -------------------- *)
\* a batch that was called without a list has connected and opened the page
\* and enters the try block of fetch_trip_ids (line 109)
InitMore ==
    /\ pc = "fetch_load"
    /\ browser = TRUE /\ context = TRUE /\ page = TRUE
    /\ pages_created = 1
    /\ arg_ids = << >> /\ trip_ids = << >>
    /\ start_date \in StartArgs /\ end_date \in EndArgs
    /\ trips_with_dates = << >>
    /\ i = 1 /\ results = << >>
    /\ t = NewTrip
    /\ hist = NewHist

NextMore ==
    \/ FetchLoad \/ FetchLoadFails \/ FetchMore \/ FetchMoreEnds \/ FetchSelect
    \/ FetchReturn

SpecMore == InitMore /\ [][NextMore]_vars

(* -------------------- extract_cost on its own (--test) ----------------- *)
\* main in test mode (lines 579-589) has connected, opened the page and
\* loaded the trip page; what the page shows and which page query fails
\* are drawn here
InitCost ==
    /\ pc = "test_extract"
    /\ browser = TRUE /\ context = TRUE /\ page = TRUE
    /\ pages_created = 1
    /\ arg_ids = << >> /\ trip_ids = << >>
    /\ start_date = << >> /\ end_date = << >>
    /\ trips_with_dates = << >>
    /\ i = 0 /\ results = << >>
    /\ \E pg \in TestPages, fail \in 0..(MaxCostDivs + 5) :
          t = [ pg |-> pg, fail |-> fail, cost |-> None, how |-> None ]
    /\ hist = NewHist

\* lines 591-595: cost = await downloader.extract_cost(downloader.page)
TestExtract ==
    /\ pc = "test_extract"
    /\ t' = [t EXCEPT !.cost = extract_cost(t.pg, t.fail).cost,
                      !.how = extract_cost(t.pg, t.fail).how]
    /\ pc' = "test_done"
    /\ UNCHANGED << browser, context, page, pages_created, arg_ids, start_date,
                    end_date, trip_ids, trips_with_dates, i, results >>
    /\ UNCHANGED hist

NextCost == TestExtract

SpecCost == InitCost /\ [][NextCost]_vars

(* ---------------------- the date step on its own ----------------------- *)
\* download_receipt of the only trip of a batch has received the download
\* from the first download selector and has extracted the amount (line 368)
InitDate ==
    /\ pc = "extract_date"
    /\ browser = TRUE /\ context = TRUE /\ page = TRUE
    /\ pages_created = 1
    /\ arg_ids = << "txt1" >> /\ trip_ids = << "txt1" >>
    /\ start_date = << >> /\ end_date = << >>
    /\ trips_with_dates = << >>
    /\ i = 1 /\ results = << >>
    /\ t = [NewTrip EXCEPT !.sel = 1, !.receipt_clicked = TRUE, !.pdf_button_found = TRUE,
                           !.armed = TRUE, !.download = TRUE, !.received = TRUE,
                           !.dl_probed = << 1 >>, !.dl_clicked = << 1 >>, !.arms = 1,
                           !.dl_seen = {1},
                           !.cost = "24.06", !.cost_how = "div", !.clicks_at_extract = 1]
    /\ hist = NewHist

NextDate == ExtractCalendarDate

SpecDate == InitDate /\ [][NextDate]_vars

(* ------------------------------- main ---------------------------------- *)
\* lines 553-573: the arguments are parsed and the downloader is constructed
InitMain ==
    /\ pc = "main_connect"
    /\ browser = FALSE /\ context = FALSE /\ page = FALSE
    /\ pages_created = 0
    /\ arg_ids = << >> /\ start_date = << >> /\ end_date = << >>
    /\ trip_ids = << >> /\ trips_with_dates = << >>
    /\ i = 0 /\ results = << >>
    /\ t = NewTrip
    /\ hist = NewHist

\* line 576: connect_to_browser (lines 44-62) connects, or prints and
\* re-raises into the handler of line 650
MainConnect ==
    /\ pc = "main_connect"
    /\ \E ok \in BOOLEAN :
          IF ok THEN browser' = TRUE /\ context' = TRUE /\ pc' = "main_mode"
                ELSE UNCHANGED << browser, context >> /\ pc' = "raised"
    /\ UNCHANGED << page, pages_created, arg_ids, start_date, end_date, trip_ids,
                    trips_with_dates, i, results, t, hist >>

\* lines 579-589: --test: the page is opened and the trip page loaded; an
\* error of new_page or goto reaches the handler of line 650
MainTest ==
    /\ pc = "main_mode"
    /\ \E r \in {"loaded", "new_page_error", "goto_error"} :
          CASE r = "loaded" ->
                 /\ page' = TRUE /\ pages_created' = pages_created + 1
                 /\ pc' = "main_extract"
            [] r = "new_page_error" ->
                 /\ UNCHANGED << page, pages_created >>
                 /\ pc' = "raised"
            [] r = "goto_error" ->
                 /\ page' = TRUE /\ pages_created' = pages_created + 1
                 /\ pc' = "raised"
    /\ UNCHANGED << browser, context, arg_ids, start_date, end_date, trip_ids,
                    trips_with_dates, i, results, t, hist >>

\* lines 591-595: cost = await downloader.extract_cost(downloader.page), which
\* is printed, and main returns
MainExtract ==
    /\ pc = "main_extract"
    /\ \E run \in CostRuns :
          t' = [t EXCEPT !.cost = run.cost, !.cost_how = run.how]
    /\ pc' = "test_done"
    /\ UNCHANGED << browser, context, page, pages_created, arg_ids, start_date,
                    end_date, trip_ids, trips_with_dates, i, results, hist >>

\* lines 597-633: without --test.  ids is args.trip_id (<< >>: not given),
\* all is args.all, default is the configured TRIP_IDS (line 33: None, or an
\* empty list).  A given list is passed on without dates (line 621); without
\* one, --all or TRIP_IDS = None starts a fetch over the date range of lines
\* 598-614; otherwise main returns (lines 632-633).
MainDispatch ==
    /\ pc = "main_mode"
    /\ \E ids \in SeqUpTo(TripIds, MaxMainTrips), all \in BOOLEAN,
          default \in {"None", "empty"} :
          IF ids # << >>
          THEN /\ arg_ids' = ids /\ trip_ids' = ids
               /\ start_date' = << >> /\ end_date' = << >>
               /\ pc' = "dmr_connect"
          ELSE IF all \/ default = "None"
          THEN /\ arg_ids' = << >> /\ trip_ids' = << >>
               /\ \E sd \in StartArgs \ {<< >>}, ed \in EndArgs \ {<< >>} :
                     start_date' = sd /\ end_date' = ed
               /\ pc' = "dmr_connect"
          ELSE /\ UNCHANGED << arg_ids, trip_ids, start_date, end_date >>
               /\ pc' = "no_ids"
    /\ UNCHANGED << browser, context, page, pages_created, trips_with_dates, i,
                    results, t, hist >>

\* MainClose in which an error inside close() propagates out of the finally
\* block and the cleanup is run again
MainClose_Propagates ==
    /\ pc \in {"raised", "returned", "test_done", "no_ids"}
    /\ hist.closes < 2
    /\ \E err \in BOOLEAN :
          /\ hist' = [hist EXCEPT !.closes = @ + 1, !.close_error = err,
                                  !.closed_after = pc]
          /\ pc' = IF err THEN "raised" ELSE "closed"
    /\ UNCHANGED << browser, context, page, pages_created, arg_ids, start_date,
                    end_date, trip_ids, trips_with_dates, i, results, t >>

\* lines 650-653, 541-551: main has returned, or the handler of line 650 has
\* printed the error; the finally block calls close(), which closes the page,
\* the browser and playwright and catches an error of any of them (line 550)
MainClose ==
    /\ pc \in {"raised", "returned", "test_done", "no_ids"}
    /\ \E err \in BOOLEAN :
          hist' = [hist EXCEPT !.closes = @ + 1, !.close_error = err,
                              !.closed_after = pc]
    /\ pc' = "closed"
    /\ UNCHANGED << browser, context, page, pages_created, arg_ids, start_date,
                    end_date, trip_ids, trips_with_dates, i, results, t >>

NextMain ==
    \/ MainConnect \/ MainTest \/ MainExtract \/ MainDispatch
    \/ Connect \/ CheckIds
    \/ FetchPage \/ FetchLoad \/ FetchLoadFails \/ FetchMore \/ FetchMoreEnds \/ FetchSelect
    \/ FetchReturn
    \/ Navigate \/ ViewProbe \/ ViewClick \/ ViewScan
    \/ DlProbe \/ DlArm \/ DlClick \/ DlWait \/ ExtractCost \/ ExtractDate \/ Save
    \/ CloseProbe \/ CloseClick \/ CloseEscape \/ DlText
    \/ AppendResult
    \/ MainClose

SpecMain == InitMain /\ [][NextMain]_vars

TypeOK ==
    /\ pc \in { "call", "raised", "returned", "dmr_connect", "dmr_check",
                "fetch_page", "fetch_load", "fetch_more", "fetch_select",
                "fetch_return",
                "dr_start", "view_probe", "view_click", "view_scan",
                "dl_probe", "dl_arm", "dl_click", "dl_wait", "extract_cost",
                "extract_date", "dl_save", "close_probe", "close_click",
                "close_escape", "dl_text", "dr_return" }
    /\ Len(results) <= Len(trip_ids)

(* ======================= properties of the batch ======================= *)
\* results holds one pair per trip of ids, in the order of ids
OnePairPerTrip(ids) ==
    /\ Len(results) = Len(ids)
    /\ \A k \in 1..Len(ids) : results[k][1] = ids[k]

\* C1 (as stated): with a connected session, for every input list and every
\* combination of per-trip failures, download_multiple_receipts returns one
\* (tripId, pathOrNull) pair per input trip, in input order.
C1_OnePairPerInputTrip ==
    pc = "returned" => OnePairPerTrip(arg_ids)

\* C1 (amended): the same for every non-empty input list; a failing trip
\* contributes a null path and the later trips are still processed.  While
\* the loop runs, results is the processed prefix of the input list.
C1_OnePairPerNonEmptyInput ==
    arg_ids # << >> =>
        /\ Len(results) <= Len(arg_ids)
        /\ \A k \in 1..Len(results) : results[k][1] = arg_ids[k]
        /\ pc \in {"dr_start", "dr_return"} => Len(results) = i - 1
        /\ pc = "returned" => OnePairPerTrip(arg_ids)
        /\ browser => pc # "raised"

\* a batch over an explicit list returned after its first trip failed and its
\* second trip was saved
C1_Witness ==
    /\ pc = "returned" /\ Len(arg_ids) = 2 /\ Len(results) = 2
    /\ results[1][2] = None /\ results[2][2] # None

\* C12: when a non-empty explicit list is supplied together with a date range,
\* the trips page is never fetched, no date filter is applied, and the batch
\* processes exactly the supplied ids in the supplied order.
C12_ExplicitListWins ==
    arg_ids # << >> /\ (start_date # << >> \/ end_date # << >>) =>
        /\ pc \notin {"fetch_page", "fetch_load", "fetch_more", "fetch_select", "fetch_return"}
        /\ trips_with_dates = << >>
        /\ trip_ids = arg_ids
        /\ pc \in {"dr_start", "dr_return"} => trip_id = arg_ids[Len(results) + 1]
        /\ pc = "returned" => [k \in 1..Len(results) |-> results[k][1]] = arg_ids

\* a batch over an explicit list of two ids with both dates given has returned
C12_Witness ==
    /\ pc = "returned" /\ Len(arg_ids) = 2 /\ arg_ids[1] # arg_ids[2]
    /\ start_date # << >> /\ end_date # << >>
    /\ Len(results) = 2 /\ results[1][1] = arg_ids[1] /\ results[2][1] = arg_ids[2]

\* month and day each dateText considered names, << >> when it names none
NamedDay ==
    [ txt \in EntryDateTexts |->
        CASE txt = "Mar 6 - 2:25 PM"       -> << 3, 6 >>
          [] txt = "August 3 - 9:10 AM"    -> << 8, 3 >>
          [] txt = "Oct 10 - 8:05 AM"      -> << 10, 10 >>
          [] txt = "December 25 - 6:00 PM" -> << 12, 25 >>
          [] OTHER                         -> << >> ]

\* hours from a fixed origin to the datetime <<year, month, day, hour>>,
\* counting every month as 31 days
Hours(dt) == ((dt[1] * 12 + dt[2]) * 31 + dt[3]) * 24 + dt[4]

\* the entry names a day that, taken in the current year, lies before the
\* start date or after the end date
OutOfRange(entry) ==
    /\ NamedDay[entry.dateText] # << >>
    /\ LET day == Hours(<< Today[1] >> \o NamedDay[entry.dateText] \o << 0 >>)
       IN  \/ start_date # << >> /\ day < Hours(start_date)
           \/ end_date # << >> /\ day > Hours(end_date)

C18_ConnectFailureIsFatal ==
    ~browser =>
        /\ pc \in {"call", "dmr_connect", "raised"}
        /\ ~context /\ ~page /\ pages_created = 0
        /\ trips_with_dates = << >>
        /\ results = << >>
        /\ t = NewTrip

\* connect_to_browser failed inside a batch over two trips
C18_Witness ==
    /\ pc = "raised" /\ ~browser /\ Len(arg_ids) = 2 /\ results = << >>

\* C19: across a run (trip-list fetch followed by any number of trips, failed
\* ones included) at most one page is created: a page is opened only when the
\* downloader holds none, and every step of every trip uses that page.
C19_OnePageReused ==
    /\ [](/\ pages_created <= 1
          /\ page <=> pages_created = 1
          /\ pc \in { "fetch_load", "fetch_more", "fetch_select", "fetch_return",
                       "view_probe", "view_click", "view_scan", "dl_probe", "dl_arm",
                       "dl_click", "dl_wait", "extract_cost", "extract_date", "dl_save",
                       "close_probe", "close_click", "close_escape", "dl_text" } => page)
    /\ [][pages_created' # pages_created => ~page /\ page' /\ pages_created' = 1]_vars

\* a batch fetched its trips and processed two of them, the first of which
\* failed, on one page
C19_Witness ==
    /\ pc = "returned" /\ arg_ids = << >> /\ Len(results) = 2
    /\ results[1][2] = None /\ results[2][2] # None /\ pages_created = 1

(* ===================== properties of download_receipt ================== *)
\* C2: on every path on which the download control is clicked, the download
\* listener has been armed before the click is issued.
C2_ListenerArmedBeforeClick ==
    [][Len(t'.dl_clicked) > Len(t.dl_clicked) => t.armed /\ t.arms > Len(t.dl_clicked)]_vars

\* a download click has been issued
C2_Witness == Len(t.dl_clicked) > 0 /\ pc = "dl_wait"

C3_TimeoutReached == pc = "dr_return" /\ t.timed_out /\ t.ret = None

\* C4: within one call the download click is issued at most once; after a
\* timeout or an error following the click, no further download selector is
\* probed or clicked.
C4_SingleDownloadAttempt ==
    /\ Len(t.dl_clicked) <= 1
    /\ \A a \in 1..Len(t.dl_probed), c \in 1..Len(t.dl_clicked) :
          t.dl_probed[a] <= t.dl_clicked[c]

\* C5: when no view-receipt selector is visible and the button scan clicks
\* nothing, the call returns null without probing a download selector, arming
\* a listener, clicking a download control or writing a file.
C5_NoReceiptDialogNoDownload ==
    ~t.receipt_clicked =>
        /\ t.dl_probed = << >> /\ t.arms = 0 /\ ~t.armed
        /\ t.dl_clicked = << >> /\ t.written = {}
        /\ pc \notin { "dl_probe", "dl_arm", "dl_click", "dl_wait", "extract_cost",
                       "extract_date", "dl_save", "dl_text" }
        /\ pc = "dr_return" => t.ret = None

\* every view-receipt selector was probed, none was visible, the scan clicked
\* nothing, and the call returned null
C5_Witness ==
    /\ pc = "dr_return" /\ Len(t.view_probed) = Len(view_receipt_selectors)
    /\ t.view_seen = {} /\ t.scan_clicked = None /\ t.ret = None

\* C6: extraction never fails a trip: once the download is received the two
\* extraction steps always lead to the save, and when the save succeeds the
\* saved path is returned, with "unknown" in the file name when the amount
\* could not be extracted.
C6_ExtractionNeverFailsTrip ==
    /\ [][(pc = "extract_cost" => pc' = "extract_date" /\ t'.raised = t.raised)
          /\ (pc = "extract_date" => pc' = "dl_save" /\ t'.raised = t.raised)]_vars
    /\ [](pc = "dr_return" /\ t.written # {} =>
            /\ t.ret \in t.written
            /\ t.cost_how \in {"nomatch", "error"} =>
                  t.cost = "unknown" /\ Contains(t.ret, "-unknownUSD-"))

\* a call returns a saved path although both extraction steps hit an error
C6_Witness ==
    /\ pc = "dr_return" /\ t.ret # None
    /\ t.cost_how = "error" /\ t.date_how = "error" /\ t.cost = "unknown"

\* C7: view-receipt selectors are probed in list order, only a visible one is
\* clicked, and once a visible one has been found no lower-ranked selector is
\* probed or clicked.
C7_FirstVisibleWins ==
    /\ \A k \in 1..Len(t.view_probed) : t.view_probed[k] = k
    /\ \A k \in 1..Len(t.view_clicked) : t.view_clicked[k] \in t.view_seen
    /\ \A v \in t.view_seen :
          /\ \A k \in 1..Len(t.view_probed) : t.view_probed[k] <= v
          /\ \A k \in 1..Len(t.view_clicked) : t.view_clicked[k] <= v

\* C8 (as stated): the file is written to <output_dir>/<amount>-<date>-<tripId>.pdf
C8_AmountDateTripName ==
    \A path \in t.written :
        path = download_dir \o "/" \o t.cost \o "-" \o t.date_formatted
                 \o "-" \o trip_id \o ".pdf"

\* C8 (amended): the file is written to
\* <output_dir>/<date>-<amount>USD-<tripId>.pdf: the date first, then the
\* amount followed by "USD", then the trip id, joined by "-" and ending in
\* ".pdf"; the name is a function of (amount, date, tripId) alone.
C8_DateAmountTripName ==
    \A path \in t.written :
        path = download_dir \o "/" \o t.date_formatted \o "-" \o t.cost \o "USD"
                 \o "-" \o trip_id \o ".pdf"

\* a file was written for an extracted amount and a parsed date
C8_Witness ==
    /\ t.written # {} /\ t.cost = "24.06" /\ t.date_formatted = "2025-03-06"

\* C9: once the file is saved, a failure while dismissing the dialog leaves
\* the result unchanged: the saved path is returned and appended to results.
C9_CloseFailureKeepsResult ==
    /\ [](pc = "dr_return" /\ t.written # {} /\ t.close_how # None =>
              t.ret \in t.written /\ t.ret = t.download_path)
    /\ [][pc = "dr_return" /\ t.written # {} =>
              results' = Append(results, << trip_id, t.download_path >>)]_vars

\* a call returns the saved path after an error while dismissing the dialog
C9_Witness ==
    /\ pc = "dr_return" /\ t.written # {} /\ t.ret \in t.written
    /\ t.close_how \in {"probe_error", "click_error", "escape_error"}

\* C10: in every call that saves a file, the amount and the date are read
\* from the page before the download control is clicked.
C10_ExtractBeforeClick ==
    t.written # {} => t.clicks_at_extract >= 0 /\ t.clicks_at_extract < Len(t.dl_clicked)

(* ===================== properties of fetch_trip_ids ==================== *)
\* the ids of the entries the date filter selects, in discovery order
SelectedIds == SelectIds(trips_with_dates, start_date, end_date)

\* position of the first occurrence of id in ids
FirstIndex(ids, id) == CHOOSE k \in 1..Len(ids) : ids[k] = id /\ \A j \in 1..(k - 1) : ids[j] # id

\* C11: the list fetch_trip_ids returns contains no id twice and is the
\* sequence of first occurrences of the selected ids, in discovery order.
C11_FirstOccurrencesInOrder ==
    pc = "fetch_return" =>
        /\ \A j, k \in 1..Len(trip_ids) : j # k => trip_ids[j] # trip_ids[k]
        /\ { trip_ids[k] : k \in 1..Len(trip_ids) }
             = { SelectedIds[k] : k \in 1..Len(SelectedIds) }
        /\ \A j, k \in 1..Len(trip_ids) :
              j < k => FirstIndex(SelectedIds, trip_ids[j]) < FirstIndex(SelectedIds, trip_ids[k])

\* entries with ids [x, y, x] were scraped and [x, y] is returned
C11_Witness ==
    /\ pc = "fetch_return" /\ Len(trips_with_dates) = 3
    /\ start_date = << >> /\ end_date = << >>
    /\ trips_with_dates[1].id = trips_with_dates[3].id
    /\ trips_with_dates[1].id # trips_with_dates[2].id
    /\ trip_ids = << trips_with_dates[1].id, trips_with_dates[2].id >>

(* ====================== properties of the date step ==================== *)
\* the first run of exactly four digits in text, or ""
YearIn(text) ==
    IF \E pos \in 1..Len(text) :
          DigitRun(text, pos) = 4 /\ (pos = 1 \/ ~IsDigit(CharAt(text, pos - 1)))
    THEN LET pos == CHOOSE p \in 1..Len(text) :
                      /\ DigitRun(text, p) = 4 /\ (p = 1 \/ ~IsDigit(CharAt(text, p - 1)))
                      /\ \A q \in 1..(p - 1) :
                            ~(DigitRun(text, q) = 4 /\ (q = 1 \/ ~IsDigit(CharAt(text, q - 1))))
         IN  SubSeq(text, pos, pos + 3)
    ELSE ""

\* C13: a date text with month name, day and four-digit year yields the date
\* of that explicit year ("March 6 2025" gives 2025-03-06); a text with month
\* name and day only yields that day of the current year; the current year is
\* substituted only when the text has no year; full and abbreviated month
\* names are both accepted.
C13_ExplicitYearElseCurrent ==
    pc = "dl_save" =>
        /\ t.date_text = "March 6 2025" => t.date_formatted = "2025-03-06"
        /\ t.date_text = "Mar 6" => t.date_formatted = ToString(Today[1]) \o "-03-06"
        /\ \A k \in 1..12 :
              t.date_text \in { FullMonths[k] \o " 6 2027", AbbrMonths[k] \o " 6 2027" }
                  => t.date_formatted = "2027-" \o Pad2(k) \o "-06"
        /\ t.date_how = "parsed" =>
              SubSeq(t.date_formatted, 1, 4)
                  = (IF YearIn(t.date_text) # "" THEN YearIn(t.date_text)
                     ELSE ToString(Today[1]))

\* is s of the form YYYY-MM-DD with a month 01..12 and a day 01..31
WellFormedDate(s) ==
    /\ Len(s) = 10
    /\ \A pos \in {1, 2, 3, 4, 6, 7, 9, 10} : IsDigit(CharAt(s, pos))
    /\ CharAt(s, 5) = "-" /\ CharAt(s, 8) = "-"
    /\ NumVal(SubSeq(s, 6, 7)) \in 1..12
    /\ NumVal(SubSeq(s, 9, 10)) \in 1..31

IsoTexts == { FormatDate(dt) : dt \in Dates }

\* every date of Dates written with a month name, day and year, with the
\* text strftime("%Y-%m-%d") writes for it
WrittenPairs ==
    { << Written(FullMonths, dt), FormatDate(dt) >> : dt \in Dates }
    \cup { << Written(AbbrMonths, dt), FormatDate(dt) >> : dt \in Dates }

\* C17 (as stated): format(parse(format(d))) = format(d) for every valid date
\* d, where format writes YYYY-MM-DD and parse is the date-text parser.
C17_IsoRoundTrip ==
    pc = "dl_save" /\ t.date_text \in IsoTexts => t.date_formatted = t.date_text

\* C17 (amended): format(parse(text(d))) = format(d) for every valid date d,
\* where text(d) is d written as month name (full or abbreviated), day and
\* four-digit year separated by single spaces; on format(d) itself the
\* parser finds no date and the date step yields the current date.
C17_WrittenRoundTrip ==
    pc = "dl_save" =>
        /\ \A pair \in WrittenPairs :
              t.date_text = pair[1] => t.date_formatted = pair[2] /\ t.date_how = "parsed"
        /\ t.date_text \in IsoTexts =>
              t.date_formatted = FormatDate(Today) /\ t.date_how = "fallback"

\* the date step has read "Feb 29 2028" and produced 2028-02-29
C17_Witness ==
    /\ pc = "dl_save" /\ t.date_text = "Feb 29 2028"
    /\ t.date_formatted = "2028-02-29"

(* ====================== properties of extract_cost ===================== *)
\* no text of the page has a currency symbol
NoDollar(pg) ==
    /\ \A k \in 1..Len(pg.divs) : ~Contains(pg.divs[k], "$")
    /\ pg.tag = 3 => ~Contains(pg.ptext, "$")

\* the digits of the first "$" followed by digits, a point and digits in each
\* of the texts considered ("": the text has none)
PriceOf(text) ==
    CASE text = "$24.06" -> "24.06"
      [] text = "$7.50 + $3.00" -> "7.50"
      [] text = "$12 or $7.50" -> "7.50"
      [] OTHER -> ""

\* a cost block, or the paragraph next to the Tag icon, shows a price
ShowsPrice(pg) ==
    \/ \E k \in 1..Len(pg.divs) : PriceOf(pg.divs[k]) # ""
    \/ pg.tag = 3 /\ PriceOf(pg.ptext) # ""

\* C16 (as stated): on content with no currency symbol and at least two
\* two-decimal numbers the amount is the second such number in document
\* order; "unknown" is returned only when no heuristic matches.
C16_SecondNumberFallback ==
    pc = "test_done" /\ t.fail = 0 =>
        LET numbers == Decimals(PageText(t.pg, 1), 1)
        IN  /\ NoDollar(t.pg) /\ Len(numbers) >= 2 => t.cost = numbers[2]
            /\ t.cost = "unknown" => ~ShowsPrice(t.pg) /\ Len(numbers) < 2

\* C16 (amended): there is no positional fallback: on content with no
\* currency symbol the amount is "unknown", also when the content has two
\* two-decimal numbers; the amount is the number after the "$" of a cost
\* block or of the Tag paragraph, and "unknown" is returned exactly when
\* neither shows a price or a page query raises.
C16_UnknownWithoutDollarPrice ==
    pc = "test_done" =>
        /\ NoDollar(t.pg) => t.cost = "unknown"
        /\ t.cost # "unknown" => t.cost \in {"24.06", "7.50"} /\ ShowsPrice(t.pg)
        /\ t.fail = 0 => (t.cost = "unknown" <=> ~ShowsPrice(t.pg))
        /\ t.how = "error" => t.fail # 0 /\ t.cost = "unknown"

\* the only cost block reads "3.20 mi 24.06", there is no Tag icon, no query
\* fails, and the amount is "unknown"
C16_Witness ==
    /\ pc = "test_done" /\ t.pg.divs = << "3.20 mi 24.06" >> /\ t.pg.tag = 0
    /\ t.fail = 0 /\ t.cost = "unknown" /\ t.how = "nomatch"

(* ===================== the per-trip flow as a whole ==================== *)
\* How far the running call has come: 0 NotStarted, 1 PageLoaded,
\* 2 ReceiptDialogOpen, 3 DownloadTriggered, 4 the dialog is being closed
\* (ArtifactSaved when a file was written), 5 returned (DialogClosed or
\* Failed); -1 outside a call.
Stage ==
    CASE pc = "dr_start" -> 0
      [] pc \in {"view_probe", "view_click", "view_scan"} -> 1
      [] pc \in {"dl_probe", "dl_arm", "dl_click", "dl_text"} -> 2
      [] pc \in {"dl_wait", "extract_cost", "extract_date", "dl_save"} -> 3
      [] pc \in {"close_probe", "close_click", "close_escape"} -> 4
      [] pc = "dr_return" -> 5
      [] OTHER -> -1

\* C20: the per-trip flow only moves forward through NotStarted, PageLoaded,
\* ReceiptDialogOpen, DownloadTriggered, ArtifactSaved, DialogClosed, or
\* jumps to Failed: the download click comes only after a view-receipt
\* click, the save only after the download was received, the close only
\* after the download step; the flow never returns to an earlier state and
\* does nothing on the page once it has returned.
C20_ForwardOnly ==
    /\ [](/\ t.dl_clicked # << >> => t.receipt_clicked
          /\ t.written # {} => t.received
          /\ Stage = 4 => t.dl_clicked # << >>
          /\ Stage >= 2 => t.receipt_clicked \/ pc = "dr_return")
    /\ [][/\ Stage \in 0..4 => Stage' >= Stage
          /\ Stage = 5 => t' = NewTrip /\ Stage' \in {0, -1}]_vars

(* ======================== dismissing the dialog ======================== *)
\* the close selectors probed so far are the first ones of the list, in order
ProbedInOrder ==
    /\ Len(t.close_probed) <= Len(close_button_selectors)
    /\ \A k \in 1..Len(t.close_probed) : t.close_probed[k] = k

\* a click is on a selector that was seen visible, and that one is the last
\* selector probed: nothing is probed after it
ClickEndsProbing ==
    \A k \in 1..Len(t.close_clicked) :
       /\ t.close_clicked[k] \in t.close_seen
       /\ t.close_clicked[k] = Len(t.close_probed)

\* at most one click or one Escape, never both
OneDismissAction == Len(t.close_clicked) + t.escapes <= 1

\* download_receipt has gone through lines 459-478 and is about to return
Dismissed == pc = "dr_return" /\ t.close_probed # << >>

\* C21 as stated: close selectors are probed in list order, the first visible
\* one is clicked and nothing is tried after it, Escape is pressed exactly when
\* no close selector was visible, and a trip performs at most one dismiss action
C21_EscapeIffNoneVisible ==
    /\ ProbedInOrder /\ ClickEndsProbing /\ OneDismissAction
    /\ Dismissed => (t.escapes = 1 <=> t.close_seen = {})

\* C21, amended: close selectors are probed in list order, the first visible
\* one is clicked and nothing is tried after it, Escape is pressed exactly when
\* every close selector was probed without an error and none was visible, and
\* a trip performs at most one dismiss action
C21_EscapeIffAllHidden ==
    /\ ProbedInOrder /\ ClickEndsProbing /\ OneDismissAction
    /\ Dismissed => /\ t.escapes = 1 <=>
                         /\ t.close_seen = {}
                         /\ Len(t.close_probed) = Len(close_button_selectors)
                         /\ t.close_how # "probe_error"
                    /\ t.close_seen # {} => Len(t.close_clicked) = 1

\* all three selectors were hidden and Escape was pressed
C21_Witness ==
    /\ Dismissed
    /\ t.close_probed = << 1, 2, 3 >> /\ t.close_seen = {}
    /\ t.close_clicked = << >> /\ t.escapes = 1

(* ========================= the last-resort scan ======================== *)
\* the button texts that contain the logical name "View Receipt", in any case
NamesControl(text) == text \in { "View Receipt" }

\* the button texts that contain the word "receipt" or the word "view", in
\* any case
HasNameWord(text) == text \in { "View Receipt", "Overview" }

\* the scan has run in the current download_receipt call
Scanned == t.scanned

\* the scan is entered only with receipt_clicked unset, and only after every
\* candidate selector was tried
ScanOnlyWithoutClick ==
    /\ pc = "view_scan" => ~t.receipt_clicked
    /\ Scanned => /\ t.view_probed = << 1, 2, 3, 4 >>
                  /\ \A k \in 1..Len(t.view_clicked) : t.view_clicked[k] \in t.view_seen

\* C22 as stated: the scan runs only when no candidate selector led to a
\* click, it clicks at most one button, and the button clicked is the first
\* one whose text contains the logical name "View Receipt"; no other button
\* is clicked
C22_ClicksFirstNamedButton ==
    /\ ScanOnlyWithoutClick
    /\ Scanned =>
          /\ Len(t.scan_clicks) <= 1
          /\ \A k \in 1..Len(t.scan_clicks) :
                /\ NamesControl(t.all_buttons[t.scan_clicks[k]])
                /\ \A j \in 1..(t.scan_clicks[k] - 1) : ~NamesControl(t.all_buttons[j])

\* C22, amended: the scan runs only when no candidate selector led to a
\* click, it clicks at most one button, and the button clicked is the first
\* one whose text contains "receipt" or "view"; a button whose text contains
\* neither word is never clicked
C22_ClicksFirstButtonWithAWord ==
    /\ ScanOnlyWithoutClick
    /\ Scanned =>
          /\ Len(t.scan_clicks) <= 1
          /\ \A k \in 1..Len(t.scan_clicks) :
                /\ HasNameWord(t.all_buttons[t.scan_clicks[k]])
                /\ \A j \in 1..(t.scan_clicks[k] - 1) : ~HasNameWord(t.all_buttons[j])

\* the scan passed over "Help" and clicked "Overview"
C22_Witness ==
    /\ pc = "dl_probe" /\ Scanned /\ t.receipt_clicked
    /\ t.all_buttons = << "Help", "Overview" >>
    /\ t.scan_clicks = << 2 >>

(* ===================== extract_cost never raises ======================= *)
\* what the ordered heuristics find on a page: the price of the first cost
\* block that shows one, else the price of the Tag paragraph, else nothing
FirstPrice(pg) ==
    IF \E k \in 1..Len(pg.divs) : PriceOf(pg.divs[k]) # ""
    THEN PriceOf(pg.divs[CHOOSE k \in 1..Len(pg.divs) :
                            /\ PriceOf(pg.divs[k]) # ""
                            /\ \A j \in 1..(k - 1) : PriceOf(pg.divs[j]) = ""])
    ELSE IF pg.tag = 3 /\ PriceOf(pg.ptext) # "" THEN PriceOf(pg.ptext)
    ELSE "unknown"

\* C23: extract_cost returns on every page and under every failing page
\* query; without a failure the value is the price the ordered heuristics
\* find first (cost blocks before the Tag paragraph, the first "$" price
\* inside a text) or "unknown" when they find none; with a failure it is that
\* price or "unknown", and the error branch always gives "unknown"
C23_TotalAndFirstPrice ==
    /\ [](pc = "test_done" =>
            /\ t.fail = 0 => t.cost = FirstPrice(t.pg)
            /\ t.cost \in { FirstPrice(t.pg), "unknown" }
            /\ t.how = "error" => t.cost = "unknown" /\ t.fail # 0)
    /\ [][pc = "test_extract" => pc' = "test_done" /\ t'.cost # None]_vars

\* the second cost block shows "$12 or $7.50", the Tag paragraph "$24.06",
\* and the amount is the "7.50" of the cost block
C23_Witness ==
    /\ pc = "test_done" /\ t.fail = 0
    /\ t.pg = [divs |-> << "Fare $", "$12 or $7.50" >>, tag |-> 3, ptext |-> "$24.06"]
    /\ t.cost = "7.50" /\ t.how = "div"

(* =================== no download selector is visible =================== *)
\* download_receipt is about to return after it probed every download
\* selector and found none visible
NoneVisible ==
    /\ pc = "dr_return"
    /\ Len(t.dl_probed) = Len(download_pdf_selectors) /\ t.dl_seen = {}

\* the body text had the words the search of lines 484-505 looks for
TextFound == t.text_found \in { "download pdf", "download and pdf" }

C25_MoreLoopTerminates ==
    /\ [][pc = "fetch_more" /\ pc' = "fetch_more" =>
            Len(trips_with_dates') > Len(trips_with_dates)]_vars
    /\ [][pc = "fetch_more" => Len(trips_with_dates') >= Len(trips_with_dates)]_vars
    /\ [][pc = "fetch_more" /\ pc' # "fetch_more" =>
            pc' = "fetch_select" /\ trips_with_dates' = trips_with_dates]_vars
    /\ [](hist.more_clicks <= Len(trips_with_dates) + 1)
    /\ [](hist.more_clicks <= MaxEntries + 1)

\* the first page had no entry, the first click brought one, the second
\* click brought none and ended the loop
C25_Witness ==
    /\ pc = "fetch_select" /\ hist.more_clicks = 2
    /\ Len(trips_with_dates) = 1

(* ====================== a failing trip-list fetch ====================== *)
\* C26: once goto, wait_for_selector or the first scrape of fetch_trip_ids
\* has raised, the batch has returned (nothing propagated), its result list
\* is empty, there is no trip to iterate, and no download_receipt call has
\* started: no trip page was opened and no file was written
C26_FetchFailureEndsEmpty ==
    hist.fetch_failed =>
        /\ pc = "returned"
        /\ trip_ids = << >> /\ results = << >>
        /\ t = NewTrip /\ t.ret = "running" /\ t.written = {}
        /\ arg_ids = << >>

\* a batch called with a date range and no list whose fetch failed
C26_Witness ==
    /\ hist.fetch_failed /\ pc = "returned"
    /\ arg_ids = << >> /\ start_date # << >> /\ page
    /\ results = << >>

(* ============================ main and close() ========================= *)
\* how far one download_receipt call has come, from its position and the
\* selector it is at: the view selectors, the scan, the download selectors
\* (seven steps each), the text search, the close selectors, the Escape key,
\* the return
TripProgress ==
    CASE pc = "dr_start"     -> 0
      [] pc = "view_probe"   -> 2 * t.sel - 1
      [] pc = "view_click"   -> 2 * t.sel
      [] pc = "view_scan"    -> 9
      [] pc = "dl_probe"     -> 3 + 7 * t.sel
      [] pc = "dl_arm"       -> 4 + 7 * t.sel
      [] pc = "dl_click"     -> 5 + 7 * t.sel
      [] pc = "dl_wait"      -> 6 + 7 * t.sel
      [] pc = "extract_cost" -> 7 + 7 * t.sel
      [] pc = "extract_date" -> 8 + 7 * t.sel
      [] pc = "dl_save"      -> 9 + 7 * t.sel
      [] pc = "dl_text"      -> 38
      [] pc = "close_probe"  -> 37 + 2 * t.sel
      [] pc = "close_click"  -> 38 + 2 * t.sel
      [] pc = "close_escape" -> 45
      [] pc = "dr_return"    -> 46

\* how far a run of main has come: a number that is at most 1000
Progress ==
    CASE pc = "main_connect" -> 0
      [] pc = "main_mode"    -> 1
      [] pc \in {"main_extract", "dmr_connect"} -> 2
      [] pc = "dmr_check"    -> 3
      [] pc = "fetch_page"   -> 4
      [] pc = "fetch_load"   -> 5
      [] pc = "fetch_more"   -> 6 + hist.more_clicks
      [] pc = "fetch_select" -> 8 + MaxEntries
      [] pc = "fetch_return" -> 9 + MaxEntries
      [] pc \in {"raised", "returned", "test_done", "no_ids"} -> 999
      [] pc = "closed"       -> 1000
      [] OTHER               -> 10 + MaxEntries + 47 * (i - 1) + TripProgress

\* C27: every run of main ends, and it ends after close(): each step of a
\* run takes it further (by a measure that is at most 1000), and a run can
\* stop only once close() has run.  close() is called once, from the finally
\* block, after a connection failure, after test mode, when no trip id was
\* given, after the batch returned and after an exception left the batch;
\* nothing runs after it; and main ends in the same way whether or not a call
\* inside close() raised.
C27_ClosedOnceAtTheEnd ==
    /\ [][Progress' > Progress /\ Progress' <= 1000]_vars
    /\ [](pc # "closed" => ENABLED NextMain)
    /\ [](hist.closes = (IF pc = "closed" THEN 1 ELSE 0))
    /\ [](pc = "closed" =>
            hist.closed_after \in {"raised", "returned", "test_done", "no_ids"})
    /\ [][pc # "closed"]_vars
    /\ [][hist'.closes # hist.closes => pc' = "closed"]_vars

\* an exception left the batch, close() was called once and a call inside it
\* raised: main has ended
C27_Witness ==
    /\ pc = "closed" /\ hist.closes = 1 /\ hist.close_error
    /\ hist.closed_after = "raised" /\ browser /\ arg_ids = << >>
    /\ start_date # << >>
====
